---- MODULE Spec2Model ----
(***************************************************************************)
(* Model of the Intel 8080 disassembler in src/main.rs: the byte image,    *)
(* the enumerate() iterator walking it, the opcode match, the listing      *)
(* written to stdout and the diagnostic written to stderr.                 *)
(*                                                                         *)
(* Text is modelled as a sequence of pieces; every hexadecimal digit,      *)
(* every blank and every punctuation mark written by a format string is a  *)
(* piece of one character, mnemonics and color escapes are single pieces.  *)
(* stdout is a sequence of lines, a line being closed by println!.         *)
(***************************************************************************)
EXTENDS Integers, Sequences, FiniteSets, TLC

\* Longest byte image explored by the decode pass.
MaxLen == 4

\* Largest enumerate() index whose address field is formatted on its own.
MaxAddr == 65600

\* Bytes the positions of an image are drawn from; one position of every
\* image additionally ranges over all 256 values.
SampleBytes == {0, 18, 33, 62, 127}

Byte == 0..255

COLOR_RESET == "ESC[0m"
COLOR_BOLD == "ESC[1m"
COLOR_RED == "ESC[31m"
COLOR_BLUE == "ESC[34m"
COLOR_PURPLE == "ESC[35m"
COLOR_GRAY == "ESC[37m"

Colors == {COLOR_RESET, COLOR_BOLD, COLOR_RED, COLOR_BLUE, COLOR_PURPLE, COLOR_GRAY}

VARIABLES rom, pos, out, records, status, fault, err

vars == <<rom, pos, out, records, status, fault, err>>

\* Option<T>: None is the empty sequence, Some(x) the sequence <<x>>.
None == <<>>

Some(x) == <<x>>

----------------------------------------------------------------------------
\* The match on first_byte: opcode -> <<instruction_length, text, additional_text>>.
OpcodeTable ==
  [op \in Byte |->
     CASE
          op = 0 -> <<1, "NOP", <<>>>>
       [] op = 1 -> <<3, "LXI", <<"B">>>>
       [] op = 2 -> <<1, "STAX", <<"B">>>>
       [] op = 3 -> <<1, "INX", <<"B">>>>
       [] op = 4 -> <<1, "INR", <<"B">>>>
       [] op = 5 -> <<1, "DCR", <<"B">>>>
       [] op = 6 -> <<2, "MVI", <<"B">>>>
       [] op = 7 -> <<1, "RLC", <<>>>>
       [] op = 8 -> <<1, "NOP", <<>>>>
       [] op = 9 -> <<1, "DAB", <<"D">>>>
       [] op = 10 -> <<1, "LDAX", <<"B">>>>
       [] op = 11 -> <<1, "DCX", <<"B">>>>
       [] op = 12 -> <<1, "INR", <<"C">>>>
       [] op = 13 -> <<1, "DCR", <<"C">>>>
       [] op = 14 -> <<2, "MVI", <<"C">>>>
       [] op = 15 -> <<1, "RRC", <<>>>>
       [] op = 16 -> <<1, "NOP", <<>>>>
       [] op = 17 -> <<3, "LXI", <<"D">>>>
       [] op = 18 -> <<1, "STAX", <<"D">>>>
       [] op = 19 -> <<1, "INX", <<"D">>>>
       [] op = 20 -> <<1, "INR", <<"D">>>>
       [] op = 21 -> <<1, "DCR", <<"D">>>>
       [] op = 22 -> <<2, "MVI", <<"D">>>>
       [] op = 23 -> <<1, "RAL", <<>>>>
       [] op = 24 -> <<1, "NOP", <<>>>>
       [] op = 25 -> <<1, "DAD", <<"D">>>>
       [] op = 26 -> <<1, "LDAX", <<"D">>>>
       [] op = 27 -> <<1, "DCX", <<"D">>>>
       [] op = 28 -> <<1, "INR", <<"E">>>>
       [] op = 29 -> <<1, "DCR", <<"E">>>>
       [] op = 30 -> <<2, "MVI", <<"E">>>>
       [] op = 31 -> <<1, "RAR", <<>>>>
       [] op = 32 -> <<1, "NOP", <<>>>>
       [] op = 33 -> <<3, "LXI", <<"H">>>>
       [] op = 34 -> <<3, "SHLD", <<>>>>
       [] op = 35 -> <<1, "INX", <<"H">>>>
       [] op = 36 -> <<1, "INR", <<"H">>>>
       [] op = 37 -> <<1, "DCR", <<"H">>>>
       [] op = 38 -> <<2, "MVI", <<"H">>>>
       [] op = 39 -> <<1, "DAA", <<>>>>
       [] op = 40 -> <<1, "NOP", <<>>>>
       [] op = 41 -> <<1, "DAD", <<"H">>>>
       [] op = 42 -> <<3, "LHLD", <<>>>>
       [] op = 43 -> <<1, "DCX", <<"H">>>>
       [] op = 44 -> <<1, "INR", <<"L">>>>
       [] op = 45 -> <<1, "DCR", <<"L">>>>
       [] op = 46 -> <<2, "MVI", <<"L">>>>
       [] op = 47 -> <<1, "CMA", <<>>>>
       [] op = 48 -> <<1, "NOP", <<>>>>
       [] op = 49 -> <<3, "LXI", <<"S", "P">>>>
       [] op = 50 -> <<3, "STA", <<>>>>
       [] op = 51 -> <<1, "INX", <<"S", "P">>>>
       [] op = 52 -> <<1, "INR", <<"M">>>>
       [] op = 53 -> <<1, "DCR", <<"M">>>>
       [] op = 54 -> <<2, "MVI", <<"M">>>>
       [] op = 55 -> <<1, "STC", <<>>>>
       [] op = 56 -> <<1, "NOP", <<>>>>
       [] op = 57 -> <<1, "DAD", <<"S", "P">>>>
       [] op = 58 -> <<3, "LDA", <<>>>>
       [] op = 59 -> <<1, "DCX", <<"S", "P">>>>
       [] op = 60 -> <<1, "INR", <<"A">>>>
       [] op = 61 -> <<1, "DCR", <<"A">>>>
       [] op = 62 -> <<2, "MVI", <<"A">>>>
       [] op = 63 -> <<1, "CMC", <<>>>>
       [] op = 64 -> <<1, "MOV", <<"B", ",", "B">>>>
       [] op = 65 -> <<1, "MOV", <<"B", ",", "C">>>>
       [] op = 66 -> <<1, "MOV", <<"B", ",", "D">>>>
       [] op = 67 -> <<1, "MOV", <<"B", ",", "E">>>>
       [] op = 68 -> <<1, "MOV", <<"B", ",", "H">>>>
       [] op = 69 -> <<1, "MOV", <<"B", ",", "L">>>>
       [] op = 70 -> <<1, "MOV", <<"B", ",", "M">>>>
       [] op = 71 -> <<1, "MOV", <<"B", ",", "A">>>>
       [] op = 72 -> <<1, "MOV", <<"C", ",", "B">>>>
       [] op = 73 -> <<1, "MOV", <<"C", ",", "C">>>>
       [] op = 74 -> <<1, "MOV", <<"C", ",", "D">>>>
       [] op = 75 -> <<1, "MOV", <<"C", ",", "E">>>>
       [] op = 76 -> <<1, "MOV", <<"C", ",", "H">>>>
       [] op = 77 -> <<1, "MOV", <<"C", ",", "L">>>>
       [] op = 78 -> <<1, "MOV", <<"C", ",", "M">>>>
       [] op = 79 -> <<1, "MOV", <<"C", ",", "A">>>>
       [] op = 80 -> <<1, "MOV", <<"D", ",", "B">>>>
       [] op = 81 -> <<1, "MOV", <<"D", ",", "C">>>>
       [] op = 82 -> <<1, "MOV", <<"D", ",", "D">>>>
       [] op = 83 -> <<1, "MOV", <<"D", ",", "E">>>>
       [] op = 84 -> <<1, "MOV", <<"D", ",", "H">>>>
       [] op = 85 -> <<1, "MOV", <<"D", ",", "L">>>>
       [] op = 86 -> <<1, "MOV", <<"D", ",", "M">>>>
       [] op = 87 -> <<1, "MOV", <<"D", ",", "A">>>>
       [] op = 88 -> <<1, "MOV", <<"E", ",", "B">>>>
       [] op = 89 -> <<1, "MOV", <<"E", ",", "C">>>>
       [] op = 90 -> <<1, "MOV", <<"E", ",", "D">>>>
       [] op = 91 -> <<1, "MOV", <<"E", ",", "E">>>>
       [] op = 92 -> <<1, "MOV", <<"E", ",", "H">>>>
       [] op = 93 -> <<1, "MOV", <<"E", ",", "L">>>>
       [] op = 94 -> <<1, "MOV", <<"E", ",", "M">>>>
       [] op = 95 -> <<1, "MOV", <<"E", ",", "A">>>>
       [] op = 96 -> <<1, "MOV", <<"H", ",", "B">>>>
       [] op = 97 -> <<1, "MOV", <<"H", ",", "C">>>>
       [] op = 98 -> <<1, "MOV", <<"H", ",", "D">>>>
       [] op = 99 -> <<1, "MOV", <<"H", ",", "E">>>>
       [] op = 100 -> <<1, "MOV", <<"H", ",", "H">>>>
       [] op = 101 -> <<1, "MOV", <<"H", ",", "L">>>>
       [] op = 102 -> <<1, "MOV", <<"H", ",", "M">>>>
       [] op = 103 -> <<1, "MOV", <<"H", ",", "A">>>>
       [] op = 104 -> <<1, "MOV", <<"L", ",", "B">>>>
       [] op = 105 -> <<1, "MOV", <<"L", ",", "C">>>>
       [] op = 106 -> <<1, "MOV", <<"L", ",", "D">>>>
       [] op = 107 -> <<1, "MOV", <<"L", ",", "E">>>>
       [] op = 108 -> <<1, "MOV", <<"L", ",", "H">>>>
       [] op = 109 -> <<1, "MOV", <<"L", ",", "L">>>>
       [] op = 110 -> <<1, "MOV", <<"L", ",", "M">>>>
       [] op = 111 -> <<1, "MOV", <<"L", ",", "A">>>>
       [] op = 112 -> <<1, "MOV", <<"M", ",", "B">>>>
       [] op = 113 -> <<1, "MOV", <<"M", ",", "C">>>>
       [] op = 114 -> <<1, "MOV", <<"M", ",", "D">>>>
       [] op = 115 -> <<1, "MOV", <<"M", ",", "E">>>>
       [] op = 116 -> <<1, "MOV", <<"M", ",", "H">>>>
       [] op = 117 -> <<1, "MOV", <<"M", ",", "L">>>>
       [] op = 118 -> <<1, "HLT", <<>>>>
       [] op = 119 -> <<1, "MOV", <<"M", ",", "A">>>>
       [] op = 120 -> <<1, "MOV", <<"A", ",", "B">>>>
       [] op = 121 -> <<1, "MOV", <<"A", ",", "C">>>>
       [] op = 122 -> <<1, "MOV", <<"A", ",", "D">>>>
       [] op = 123 -> <<1, "MOV", <<"A", ",", "E">>>>
       [] op = 124 -> <<1, "MOV", <<"A", ",", "H">>>>
       [] op = 125 -> <<1, "MOV", <<"A", ",", "L">>>>
       [] op = 126 -> <<1, "MOV", <<"A", ",", "M">>>>
       [] op = 127 -> <<1, "MOV", <<"A", ",", "A">>>>
       [] op = 128 -> <<1, "ADD", <<"B">>>>
       [] op = 129 -> <<1, "ADD", <<"C">>>>
       [] op = 130 -> <<1, "ADD", <<"D">>>>
       [] op = 131 -> <<1, "ADD", <<"E">>>>
       [] op = 132 -> <<1, "ADD", <<"H">>>>
       [] op = 133 -> <<1, "ADD", <<"L">>>>
       [] op = 134 -> <<1, "ADD", <<"M">>>>
       [] op = 135 -> <<1, "ADD", <<"A">>>>
       [] op = 136 -> <<1, "ADC", <<"B">>>>
       [] op = 137 -> <<1, "ADC", <<"C">>>>
       [] op = 138 -> <<1, "ADC", <<"D">>>>
       [] op = 139 -> <<1, "ADC", <<"E">>>>
       [] op = 140 -> <<1, "ADC", <<"H">>>>
       [] op = 141 -> <<1, "ADC", <<"L">>>>
       [] op = 142 -> <<1, "ADC", <<"M">>>>
       [] op = 143 -> <<1, "ADC", <<"A">>>>
       [] op = 144 -> <<1, "SUB", <<"B">>>>
       [] op = 145 -> <<1, "SUB", <<"C">>>>
       [] op = 146 -> <<1, "SUB", <<"D">>>>
       [] op = 147 -> <<1, "SUB", <<"E">>>>
       [] op = 148 -> <<1, "SUB", <<"H">>>>
       [] op = 149 -> <<1, "SUB", <<"L">>>>
       [] op = 150 -> <<1, "SUB", <<"M">>>>
       [] op = 151 -> <<1, "SUB", <<"A">>>>
       [] op = 152 -> <<1, "SBB", <<"B">>>>
       [] op = 153 -> <<1, "SBB", <<"C">>>>
       [] op = 154 -> <<1, "SBB", <<"D">>>>
       [] op = 155 -> <<1, "SBB", <<"E">>>>
       [] op = 156 -> <<1, "SBB", <<"H">>>>
       [] op = 157 -> <<1, "SBB", <<"L">>>>
       [] op = 158 -> <<1, "SBB", <<"M">>>>
       [] op = 159 -> <<1, "SBB", <<"A">>>>
       [] op = 160 -> <<1, "ANA", <<"B">>>>
       [] op = 161 -> <<1, "ANA", <<"C">>>>
       [] op = 162 -> <<1, "ANA", <<"D">>>>
       [] op = 163 -> <<1, "ANA", <<"E">>>>
       [] op = 164 -> <<1, "ANA", <<"H">>>>
       [] op = 165 -> <<1, "ANA", <<"L">>>>
       [] op = 166 -> <<1, "ANA", <<"M">>>>
       [] op = 167 -> <<1, "ANA", <<"A">>>>
       [] op = 168 -> <<1, "XRA", <<"B">>>>
       [] op = 169 -> <<1, "XRA", <<"C">>>>
       [] op = 170 -> <<1, "XRA", <<"D">>>>
       [] op = 171 -> <<1, "XRA", <<"E">>>>
       [] op = 172 -> <<1, "XRA", <<"H">>>>
       [] op = 173 -> <<1, "XRA", <<"L">>>>
       [] op = 174 -> <<1, "XRA", <<"M">>>>
       [] op = 175 -> <<1, "XRA", <<"A">>>>
       [] op = 176 -> <<1, "ORA", <<"B">>>>
       [] op = 177 -> <<1, "ORA", <<"C">>>>
       [] op = 178 -> <<1, "ORA", <<"D">>>>
       [] op = 179 -> <<1, "ORA", <<"E">>>>
       [] op = 180 -> <<1, "ORA", <<"H">>>>
       [] op = 181 -> <<1, "ORA", <<"L">>>>
       [] op = 182 -> <<1, "ORA", <<"M">>>>
       [] op = 183 -> <<1, "ORA", <<"A">>>>
       [] op = 184 -> <<1, "CMP", <<"B">>>>
       [] op = 185 -> <<1, "CMP", <<"C">>>>
       [] op = 186 -> <<1, "CMP", <<"D">>>>
       [] op = 187 -> <<1, "CMP", <<"E">>>>
       [] op = 188 -> <<1, "CMP", <<"H">>>>
       [] op = 189 -> <<1, "CMP", <<"L">>>>
       [] op = 190 -> <<1, "CMP", <<"M">>>>
       [] op = 191 -> <<1, "CMP", <<"A">>>>
       [] op = 192 -> <<1, "RNZ", <<>>>>
       [] op = 193 -> <<1, "POP", <<"B">>>>
       [] op = 194 -> <<3, "JNZ", <<>>>>
       [] op = 195 -> <<3, "JMP", <<>>>>
       [] op = 196 -> <<3, "CNZ", <<>>>>
       [] op = 197 -> <<1, "PUSH", <<"B">>>>
       [] op = 198 -> <<2, "ADI", <<>>>>
       [] op = 199 -> <<1, "RST", <<"0">>>>
       [] op = 200 -> <<1, "RZ", <<>>>>
       [] op = 201 -> <<1, "RET", <<>>>>
       [] op = 202 -> <<3, "JZ", <<>>>>
       [] op = 203 -> <<3, "JMP", <<>>>>
       [] op = 204 -> <<3, "CZ", <<>>>>
       [] op = 205 -> <<3, "CALL", <<>>>>
       [] op = 206 -> <<2, "ACI", <<>>>>
       [] op = 207 -> <<1, "RST", <<"1">>>>
       [] op = 208 -> <<1, "RNC", <<>>>>
       [] op = 209 -> <<1, "POP", <<"D">>>>
       [] op = 210 -> <<3, "JNC", <<>>>>
       [] op = 211 -> <<2, "OUT", <<>>>>
       [] op = 212 -> <<3, "CNC", <<>>>>
       [] op = 213 -> <<1, "PUSH", <<"D">>>>
       [] op = 214 -> <<2, "SUI", <<>>>>
       [] op = 215 -> <<1, "RST", <<"2">>>>
       [] op = 216 -> <<1, "RC", <<>>>>
       [] op = 217 -> <<1, "RET", <<>>>>
       [] op = 218 -> <<3, "JC", <<>>>>
       [] op = 219 -> <<2, "IN", <<>>>>
       [] op = 220 -> <<3, "CC", <<>>>>
       [] op = 221 -> <<3, "CALL", <<>>>>
       [] op = 222 -> <<2, "SBI", <<>>>>
       [] op = 223 -> <<1, "RST", <<"3">>>>
       [] op = 224 -> <<1, "RPO", <<>>>>
       [] op = 225 -> <<1, "POP", <<"H">>>>
       [] op = 226 -> <<3, "JPO", <<>>>>
       [] op = 227 -> <<1, "XTHL", <<>>>>
       [] op = 228 -> <<3, "CPO", <<>>>>
       [] op = 229 -> <<1, "PUSH", <<"H">>>>
       [] op = 230 -> <<2, "ANI", <<>>>>
       [] op = 231 -> <<1, "RST", <<"4">>>>
       [] op = 232 -> <<1, "RPE", <<>>>>
       [] op = 233 -> <<1, "PCHL", <<>>>>
       [] op = 234 -> <<3, "JPE", <<>>>>
       [] op = 235 -> <<1, "XCHG", <<>>>>
       [] op = 236 -> <<3, "CPE", <<>>>>
       [] op = 237 -> <<3, "CALL", <<>>>>
       [] op = 238 -> <<2, "XRI", <<>>>>
       [] op = 239 -> <<1, "RST", <<"5">>>>
       [] op = 240 -> <<1, "RP", <<>>>>
       [] op = 241 -> <<1, "POP", <<"P", "S", "W">>>>
       [] op = 242 -> <<3, "JP", <<>>>>
       [] op = 243 -> <<1, "DI", <<>>>>
       [] op = 244 -> <<3, "CP", <<>>>>
       [] op = 245 -> <<1, "PUSH", <<"P", "S", "W">>>>
       [] op = 246 -> <<2, "ORI", <<>>>>
       [] op = 247 -> <<1, "RST", <<"6">>>>
       [] op = 248 -> <<1, "RM", <<>>>>
       [] op = 249 -> <<1, "SPHL", <<>>>>
       [] op = 250 -> <<3, "JM", <<>>>>
       [] op = 251 -> <<1, "EI", <<>>>>
       [] op = 252 -> <<3, "CM", <<>>>>
       [] op = 253 -> <<3, "CALL", <<>>>>
       [] op = 254 -> <<2, "CPI", <<>>>>
       [] op = 255 -> <<1, "RST", <<"7">>>>
  ]

\* The table with OUT (0xD3) taken for a one-byte instruction.
InstructionLengthOutShort(op) == IF op = 211 THEN 1 ELSE OpcodeTable[op][1]

\* let (instruction_length, text, additional_text) = match first_byte {..}
InstructionLength(op) == OpcodeTable[op][1]

Text(op) == OpcodeTable[op][2]

AdditionalText(op) == OpcodeTable[op][3]

----------------------------------------------------------------------------
\* Lowercase hexadecimal formatting, {:02x} and {:04x}: the digits of the
\* value, most significant first, left-padded with zeros up to the minimum
\* width and never cut.
HexDigit(d) ==
  <<"0", "1", "2", "3", "4", "5", "6", "7", "8", "9", "a", "b", "c", "d", "e", "f">>[d + 1]

RECURSIVE LowerHex(_)
LowerHex(n) ==
  IF n < 16 THEN <<HexDigit(n)>> ELSE Append(LowerHex(n \div 16), HexDigit(n % 16))

RECURSIVE ZeroPad(_, _)
ZeroPad(width, s) ==
  IF Len(s) >= width THEN s ELSE ZeroPad(width, <<"0">> \o s)

FormatHex(width, n) == ZeroPad(width, LowerHex(n))

\* {address:04x}
AddressField(address) == FormatHex(4, address)

\* {first_byte:02x}, {byte:02x}
ByteField(byte) == FormatHex(2, byte)

----------------------------------------------------------------------------
\* rom_iter.next() yields Some while the enumerate() index is inside the image.
HasNext(p) == p < Len(rom)

\* The second byte read only for three-byte instructions.
ReadsSecondOnlyForThree(instruction_length) == instruction_length > 2

\* The second byte read for every instruction.
ReadsSecondAlways(instruction_length) == instruction_length >= 1

\* if instruction_length > 1
ReadsSecond(instruction_length) == instruction_length > 1

\* The third byte read for two-byte instructions as well.
ReadsThirdForTwo(instruction_length) == instruction_length >= 2

\* The third byte never read.
ReadsThirdNever(instruction_length) == instruction_length > 3

\* if instruction_length > 2
ReadsThird(instruction_length) == instruction_length > 2

\* One pass through the body of the while loop, entered with the iterator
\* at index p < Len(rom): the locals of the iteration, the iterator index it
\* leaves behind and the operand byte, if any, whose read found no byte.
Iteration(p) ==
  LET first_byte == rom[p + 1]
      instruction_length == InstructionLength(first_byte)
      wants2 == ReadsSecond(instruction_length)
      got2 == wants2 /\ HasNext(p + 1)
      p2 == IF got2 THEN p + 2 ELSE p + 1
      missing2 == wants2 /\ ~got2
      wants3 == ~missing2 /\ ReadsThird(instruction_length)
      got3 == wants3 /\ HasNext(p2)
      p3 == IF got3 THEN p2 + 1 ELSE p2
      missing3 == wants3 /\ ~got3
  IN  [address |-> p,
       first_byte |-> first_byte,
       instruction_length |-> instruction_length,
       text |-> Text(first_byte),
       additional_text |-> AdditionalText(first_byte),
       second_byte |-> IF got2 THEN Some(rom[p + 2]) ELSE None,
       third_byte |-> IF got3 THEN Some(rom[p2 + 1]) ELSE None,
       next |-> p3,
       incomplete |-> IF missing2 THEN "second" ELSE IF missing3 THEN "third" ELSE "no"]

\* The operand bytes read but not echoed.
DumpWithoutOperands(it) ==
  AddressField(it.address) \o <<" ", " ">> \o ByteField(it.first_byte) \o <<" ">>

\* What the iteration has printed once its operand bytes are read: the
\* address, the opcode byte and every operand byte that was there.
Dump(it) ==
  AddressField(it.address) \o <<" ", " ">> \o ByteField(it.first_byte) \o <<" ">>
  \o (IF it.second_byte # None THEN ByteField(it.second_byte[1]) \o <<" ">> ELSE <<>>)
  \o (IF it.third_byte # None THEN ByteField(it.third_byte[1]) \o <<" ">> ELSE <<>>)

\* for _ in 0..3 - instruction_length { print!("   ") }: an empty range when
\* the count is not positive.
RECURSIVE Padding(_)
Padding(count) ==
  IF count <= 0 THEN <<>> ELSE <<" ", " ", " ">> \o Padding(count - 1)

\* The way the match on instruction_length can abort: unwrap() of a byte
\* that was never read, or the unreachable!() arm.
Panic(it) ==
  CASE it.instruction_length = 1 -> "no"
    [] it.instruction_length = 2 ->
         IF it.second_byte = None THEN "unwrap" ELSE "no"
    [] it.instruction_length = 3 ->
         IF it.third_byte = None \/ it.second_byte = None THEN "unwrap" ELSE "no"
    [] OTHER -> "unreachable"

\* The 16-bit operand shown in storage order, low byte first.
AdditionalBytesTextLowFirst(it) ==
  CASE it.instruction_length = 1 -> <<>>
    [] it.instruction_length = 2 ->
         <<COLOR_PURPLE, "#", "0", "x">> \o ByteField(it.second_byte[1]) \o <<COLOR_RESET>>
    [] it.instruction_length = 3 ->
         <<COLOR_BLUE, "$">> \o ByteField(it.second_byte[1]) \o ByteField(it.third_byte[1])
         \o <<COLOR_RESET>>

\* let additional_bytes_text = match instruction_length {..}
AdditionalBytesText(it) ==
  CASE it.instruction_length = 1 -> <<>>
    [] it.instruction_length = 2 ->
         <<COLOR_PURPLE, "#", "0", "x">> \o ByteField(it.second_byte[1]) \o <<COLOR_RESET>>
    [] it.instruction_length = 3 ->
         <<COLOR_BLUE, "$">> \o ByteField(it.third_byte[1]) \o ByteField(it.second_byte[1])
         \o <<COLOR_RESET>>

\* let comma = if !additional_text.is_empty() && !additional_bytes_text.is_empty()
Comma(additional_text, additional_bytes_text) ==
  IF additional_text # <<>> /\ additional_bytes_text # <<>> THEN <<",">> ELSE <<>>

\* let color = match text { "NOP" => COLOR_GRAY, _ => COLOR_RED }
Color(text) == IF text = "NOP" THEN COLOR_GRAY ELSE COLOR_RED

\* println!("\t{additional_text}{comma}{additional_bytes_text}") without the tab.
OperandText(it) ==
  it.additional_text \o Comma(it.additional_text, AdditionalBytesText(it))
  \o AdditionalBytesText(it)

\* The whole line of an instruction whose bytes were all there.
Line(it) ==
  Dump(it) \o Padding(3 - it.instruction_length)
  \o <<" ", " ", " ", Color(it.text), it.text, COLOR_RESET>>
  \o <<"\t">> \o OperandText(it)

\* .context("reading .. byte of instruction \"{first_byte:02x}\""): context()
\* takes the string as it is written, so the braces are not a format
\* argument and the text between them is printed literally.
Context(which) ==
  <<"reading ", which, " byte of instruction ", "\"", "{first_byte:02x}", "\"">>

\* error!(exitcode::DATAERR, "{:?}", anyhow!(..).context(..)): the prefix, the
\* Debug rendering of the error chain, then the exit.
ErrorReport(which) ==
  [text |-> <<COLOR_RED, COLOR_BOLD, "error:", COLOR_RESET, " ">> \o Context(which)
            \o <<"\n", "\n", "Caused by:", "\n", "    ", "instruction incomplete">>,
   exitcode |-> "DATAERR"]

NoReport == [text |-> <<>>, exitcode |-> "none"]

----------------------------------------------------------------------------
\* The images read into rom: every sequence of at most MaxLen sample bytes,
\* with at most one position replaced by an arbitrary byte.
IsImage(image) ==
  \E n \in 0..MaxLen : \E base \in [1..n -> SampleBytes] : \E i \in 0..n :
    \E b \in IF i = 0 THEN {0} ELSE Byte \ SampleBytes :
      image = IF i = 0 THEN base ELSE [base EXCEPT ![i] = b]

\* let rom = std::fs::read(..); let mut rom_iter = rom.iter().enumerate();
Init ==
  /\ IsImage(rom)
  /\ pos = 0
  /\ out = <<>>
  /\ records = <<>>
  /\ status = "running"
  /\ fault = None
  /\ err = NoReport

\* An iteration whose operand bytes are all in the image: the line is
\* printed and the loop goes on, unless the match on instruction_length
\* aborts the process.
DecodeInstruction ==
  /\ status = "running"
  /\ HasNext(pos)
  /\ LET it == Iteration(pos)
     IN  /\ it.incomplete = "no"
         /\ pos' = it.next
         /\ IF Panic(it) = "no"
            THEN /\ out' = Append(out, Line(it))
                 /\ records' = Append(records, it)
                 /\ UNCHANGED <<status, fault, err>>
            ELSE /\ out' = Append(out, Dump(it) \o Padding(3 - it.instruction_length))
                 /\ status' = "panicked"
                 /\ fault' = Some(it)
                 /\ err' = [text |-> <<Panic(it)>>, exitcode |-> "panic"]
                 /\ UNCHANGED records
  /\ UNCHANGED rom

\* rom_iter.next() returns None for the second byte: println!() closes the
\* line begun with the address and the opcode, error! reports and exits.
IncompleteSecond ==
  /\ status = "running"
  /\ HasNext(pos)
  /\ LET it == Iteration(pos)
     IN  /\ it.incomplete = "second"
         /\ pos' = it.next
         /\ out' = Append(out, Dump(it))
         /\ fault' = Some(it)
         /\ err' = ErrorReport("second")
  /\ status' = "failed"
  /\ UNCHANGED <<rom, records>>

\* rom_iter.next() returns None for the third byte.
IncompleteThird ==
  /\ status = "running"
  /\ HasNext(pos)
  /\ LET it == Iteration(pos)
     IN  /\ it.incomplete = "third"
         /\ pos' = it.next
         /\ out' = Append(out, Dump(it))
         /\ fault' = Some(it)
         /\ err' = ErrorReport("third")
  /\ status' = "failed"
  /\ UNCHANGED <<rom, records>>

\* while let Some(..) = rom_iter.next() fails: main returns.
EndOfImage ==
  /\ status = "running"
  /\ ~HasNext(pos)
  /\ status' = "done"
  /\ UNCHANGED <<rom, pos, out, records, fault, err>>

Next == DecodeInstruction \/ IncompleteSecond \/ IncompleteThird \/ EndOfImage

Spec == Init /\ [][Next]_vars

----------------------------------------------------------------------------
\* The address field on its own: print!("{address:04x}..") for the index
\* enumerate() hands out at any point of an image of any size.
InitAddr ==
  /\ rom = <<>>
  /\ pos \in 0..MaxAddr
  /\ out = <<>>
  /\ records = <<>>
  /\ status = "address"
  /\ fault = None
  /\ err = NoReport

PrintAddress ==
  /\ status = "address"
  /\ out' = <<AddressField(pos)>>
  /\ status' = "printed"
  /\ UNCHANGED <<rom, pos, records, fault, err>>

NextAddr == PrintAddress

SpecAddr == InitAddr /\ [][NextAddr]_vars

----------------------------------------------------------------------------
\* Vocabulary of the properties.

\* The iterations that went through the opcode match so far: the complete
\* instructions and the one that aborted the pass, if any.
Decoded == {records[i] : i \in 1..Len(records)} \cup {fault[i] : i \in 1..Len(fault)}

\* Scanning the image from index p by table lengths alone: the index of the
\* first opcode whose length exceeds the bytes left, or -1 if there is none.
RECURSIVE FirstTruncated(_, _)
FirstTruncated(image, p) ==
  IF p >= Len(image) THEN -1
  ELSE IF InstructionLength(image[p + 1]) > Len(image) - p THEN p
  ELSE FirstTruncated(image, p + InstructionLength(image[p + 1]))

\* Sum of the table lengths of the first k complete instructions.
RECURSIVE SumLengths(_)
SumLengths(k) ==
  IF k = 0 THEN 0 ELSE SumLengths(k - 1) + InstructionLength(records[k].first_byte)

\* The bytes the first k complete instructions took from the iterator.
RECURSIVE Consumed(_)
Consumed(k) ==
  IF k = 0 THEN <<>>
  ELSE Consumed(k - 1) \o <<records[k].first_byte>> \o records[k].second_byte
       \o records[k].third_byte

Contains(s, sub) ==
  \E i \in 1..(Len(s) - Len(sub) + 1) : SubSeq(s, i, i + Len(sub) - 1) = sub

StripColors(s) == SelectSeq(s, LAMBDA piece : piece \notin Colors)

\* The pieces of a listing line that follow its tab.
AfterTab(line) ==
  LET t == CHOOSE i \in 1..Len(line) : line[i] = "\t"
  IN  SubSeq(line, t + 1, Len(line))

LowerHexValue ==
  [c \in {"0", "1", "2", "3", "4", "5", "6", "7", "8", "9", "a", "b", "c", "d", "e", "f"} |->
     CASE c = "0" -> 0 [] c = "1" -> 1 [] c = "2" -> 2 [] c = "3" -> 3
       [] c = "4" -> 4 [] c = "5" -> 5 [] c = "6" -> 6 [] c = "7" -> 7
       [] c = "8" -> 8 [] c = "9" -> 9 [] c = "a" -> 10 [] c = "b" -> 11
       [] c = "c" -> 12 [] c = "d" -> 13 [] c = "e" -> 14 [] c = "f" -> 15]

\* s is two lowercase hexadecimal digits that read as byte.
IsTwoHexDigitsOf(s, byte) ==
  /\ Len(s) = 2
  /\ s[1] \in DOMAIN LowerHexValue
  /\ s[2] \in DOMAIN LowerHexValue
  /\ 16 * LowerHexValue[s[1]] + LowerHexValue[s[2]] = byte

----------------------------------------------------------------------------
\* C1: the pass ends in the truncation failure exactly when the scan by table
\* lengths reaches an opcode longer than the bytes left; the failure is for
\* the first such opcode, nothing is decoded after it, every instruction
\* before it is complete, and the image [0x01] gives the failure and no
\* instruction.
TruncationIsFirstAndFinal ==
  /\ status # "running" => (status = "failed" <=> FirstTruncated(rom, 0) # -1)
  /\ status = "failed" =>
       /\ Len(fault) = 1
       /\ fault[1].address = FirstTruncated(rom, 0)
       /\ fault[1].first_byte = rom[fault[1].address + 1]
       /\ ~ENABLED Next
       /\ \A i \in 1..Len(records) :
            /\ records[i].address < fault[1].address
            /\ Len(<<records[i].first_byte>> \o records[i].second_byte
                   \o records[i].third_byte) = InstructionLength(records[i].first_byte)
  /\ status = "running" /\ FirstTruncated(rom, 0) # -1 => pos <= FirstTruncated(rom, 0)
  /\ rom = <<1>> /\ status # "running" => status = "failed" /\ records = <<>>

\* C1 witness: a pass that decoded an instruction and then failed on a
\* three-byte opcode with one operand byte left.
TruncationAfterInstruction ==
  /\ status = "failed"
  /\ Len(records) >= 1
  /\ fault[1].incomplete = "third"

\* C2: the reported failure carries the address of the truncated opcode and
\* the opcode byte, each as the hexadecimal digits the listing uses.
FailureCarriesAddressAndOpcode ==
  status = "failed" =>
    /\ Contains(err.text, AddressField(fault[1].address))
    /\ Contains(err.text, ByteField(fault[1].first_byte))

\* C3 as stated: when the failure is reported the listing holds the complete
\* lines of the preceding instructions and nothing else.
NothingOfTruncatedEmitted ==
  status = "failed" =>
    /\ Len(out) = Len(records)
    /\ \A i \in 1..Len(out) : Contains(out[i], <<records[i].text>>)

\* C3 amended: when the failure is reported the listing holds the complete
\* lines of the preceding instructions followed by one line with the address
\* field, the opcode byte and the operand byte that was read, if any, of the
\* truncated instruction; no mnemonic and no operand text of it is printed.
OnlyDumpOfTruncatedEmitted ==
  status = "failed" =>
    /\ Len(out) = Len(records) + 1
    /\ \A i \in 1..Len(records) :
         /\ Contains(out[i], <<records[i].text, COLOR_RESET, "\t">>)
         /\ SubSeq(out[i], 1, 4) = AddressField(records[i].address)
    /\ LET a == fault[1].address
           last == out[Len(out)]
       IN  /\ SubSeq(last, 1, 8) =
                AddressField(a) \o <<" ", " ">> \o ByteField(rom[a + 1])
           /\ last[9] = " "
           /\ IF Len(rom) - a = 1
              THEN Len(last) = 9
              ELSE /\ Len(last) = 12
                   /\ SubSeq(last, 10, 12) = ByteField(rom[a + 2]) \o <<" ">>
           /\ ~Contains(last, <<fault[1].text>>)
           /\ ~Contains(last, <<"\t">>)

\* C3 witness: a failure on the third byte after a complete instruction, the
\* second byte of the truncated instruction having been read.
TruncatedWithOperandRead ==
  /\ status = "failed"
  /\ Len(records) >= 1
  /\ Len(rom) - fault[1].address = 2

\* C4: the address of every decode step is the sum of the table lengths of
\* the instructions decoded before it, starting at 0; addresses increase
\* strictly and no operand byte position is taken for an opcode.
AddressIsCumulativeLength ==
  /\ \A i \in 1..Len(records) : records[i].address = SumLengths(i - 1)
  /\ \A i \in 1..Len(fault) : fault[i].address = SumLengths(Len(records))
  /\ status = "running" => pos = SumLengths(Len(records))
  /\ \A i \in 1..(Len(records) - 1) : records[i].address < records[i + 1].address
  /\ \A r1 \in Decoded, r2 \in Decoded :
       ~(/\ r2.address > r1.address
         /\ r2.address < r1.address + InstructionLength(r1.first_byte))

\* C4 witness: an instruction decoded at address 3, after a three-byte one.
DecodedAfterThreeBytes ==
  /\ Len(records) >= 2
  /\ records[1].instruction_length = 3
  /\ records[2].address = 3

\* C5: in a pass that completes, the lengths of the decoded instructions add
\* up to the image length and the bytes they consumed are the image, in
\* order, each byte once; the empty image gives no instruction, no failure.
BytesConserved ==
  /\ status = "done" =>
       /\ SumLengths(Len(records)) = Len(rom)
       /\ Consumed(Len(records)) = rom
  /\ rom = <<>> => status # "failed" /\ records = <<>> /\ out = <<>>

\* C5 witness: a completed pass over instructions of different lengths.
CompletedMixedPass ==
  /\ status = "done"
  /\ Len(records) >= 2
  /\ records[1].instruction_length = 2
  /\ records[2].instruction_length = 1

\* Opcodes of three bytes by the instruction set: LXI, SHLD, LHLD, STA, LDA,
\* the conditional jumps and calls, JMP and CALL with their alias encodings.
ThreeByteOpcodes ==
  {1, 17, 33, 49} \cup {34, 42, 50, 58}
  \cup {op \in 192..255 : op % 8 = 2} \cup {195, 203}
  \cup {op \in 192..255 : op % 8 = 4} \cup {205, 221, 237, 253}

\* Opcodes of two bytes by the instruction set: MVI, the ALU immediates, IN, OUT.
TwoByteOpcodes ==
  {op \in 0..63 : op % 8 = 6} \cup {op \in 192..255 : op % 8 = 6} \cup {219, 211}

ThreeByteMnemonics ==
  {"LXI", "SHLD", "LHLD", "STA", "LDA",
   "JMP", "JNZ", "JZ", "JNC", "JC", "JPO", "JPE", "JP", "JM",
   "CALL", "CNZ", "CZ", "CNC", "CC", "CPO", "CPE", "CP", "CM"}

TwoByteMnemonics ==
  {"MVI", "ADI", "ACI", "SUI", "SBI", "ANI", "XRI", "ORI", "CPI", "IN", "OUT"}

\* C6: every opcode has a table entry of length 1, 2 or 3; the length is 3
\* exactly for the 16-bit immediate and address instructions, the jumps and
\* the calls with their aliases, 2 exactly for the 8-bit immediate
\* instructions, 1 for every other opcode.
LengthFollowsEncoding ==
  \A r \in Decoded :
    /\ r.first_byte \in DOMAIN OpcodeTable
    /\ r.instruction_length = InstructionLength(r.first_byte)
    /\ r.instruction_length \in {1, 2, 3}
    /\ r.instruction_length = 3 <=> r.first_byte \in ThreeByteOpcodes
    /\ r.instruction_length = 3 <=> r.text \in ThreeByteMnemonics
    /\ r.instruction_length = 2 <=> r.first_byte \in TwoByteOpcodes
    /\ r.instruction_length = 2 <=> r.text \in TwoByteMnemonics

\* C6 witness: a completed pass over a single instruction whose opcode is the
\* alias encoding 0xCB of JMP or the port output 0xD3.
AliasJumpDecoded ==
  /\ Len(records) = 1
  /\ records[1].first_byte \in {203, 211}
  /\ status = "done"

\* C7: without the color escapes, the operand text of every line is the
\* operand template, then a comma only if template and synthesized text are
\* both non-empty, then the synthesized text: nothing for one byte, #0x and
\* the second byte in two lowercase hex digits for two bytes, $ and the third
\* byte then the second byte for three bytes.
OperandTextIsTemplateCommaBytes ==
  /\ Len(out) >= Len(records)
  /\ \A i \in 1..Len(records) :
       LET a == records[i].address
           n == InstructionLength(rom[a + 1])
           template == AdditionalText(rom[a + 1])
           shown == StripColors(AfterTab(out[i]))
           joint == IF template # <<>> /\ n > 1 THEN <<",">> ELSE <<>>
           head == template \o joint
           synth == SubSeq(shown, Len(head) + 1, Len(shown))
       IN  /\ SubSeq(shown, 1, Len(head)) = head
           /\ n = 1 => synth = <<>>
           /\ n = 2 => /\ Len(synth) = 5
                       /\ SubSeq(synth, 1, 3) = <<"#", "0", "x">>
                       /\ IsTwoHexDigitsOf(SubSeq(synth, 4, 5), rom[a + 2])
           /\ n = 3 => /\ Len(synth) = 5
                       /\ synth[1] = "$"
                       /\ IsTwoHexDigitsOf(SubSeq(synth, 2, 3), rom[a + 3])
                       /\ IsTwoHexDigitsOf(SubSeq(synth, 4, 5), rom[a + 2])
  /\ rom = <<62, 127>> /\ status = "done" =>
       StripColors(AfterTab(out[1])) = <<"A", ",", "#", "0", "x", "7", "f">>
  /\ rom = <<33, 52, 18>> /\ status = "done" =>
       StripColors(AfterTab(out[1])) = <<"H", ",", "$", "1", "2", "3", "4">>

\* C7 witness: the image 21 34 12 has been listed.
SixteenBitOperandListed ==
  /\ rom = <<33, 52, 18>>
  /\ status = "done"
  /\ Len(out) = 1

\* C8: the address of every instruction is a 16-bit value and its address
\* field is exactly 4 hexadecimal digits.
AddressFieldIsFourDigits ==
  status = "printed" =>
    /\ pos < 65536
    /\ Len(out[1]) = 4
    /\ \A i \in 1..Len(out[1]) : out[1][i] \in DOMAIN LowerHexValue

\* C9: the truncation failure is the only way a pass aborts: no unwrap() of
\* a byte that was not read, no unreachable!(), no negative padding count,
\* every opcode decoded by a table entry.
OnlyTruncationFails ==
  /\ status \in {"running", "done", "failed"}
  /\ err.exitcode \in {"none", "DATAERR"}
  /\ status = "failed" <=> err.exitcode = "DATAERR"
  /\ \A i \in 1..Len(fault) : fault[i].incomplete # "no"
  /\ \A i \in 1..Len(records) :
       /\ records[i].first_byte \in DOMAIN OpcodeTable
       /\ 3 - records[i].instruction_length >= 0
       /\ records[i].instruction_length >= 2 => records[i].second_byte # None
       /\ records[i].instruction_length >= 3 => records[i].third_byte # None
       /\ records[i].instruction_length \in {1, 2, 3}

\* C9 witness: a pass that formatted a three-byte instruction and finished.
ThreeByteFormatted ==
  /\ status = "done"
  /\ \E i \in 1..Len(records) : records[i].instruction_length = 3

RegisterPairs == <<(<<"B">>), (<<"D">>), (<<"H">>), (<<"S", "P">>)>>

\* C10: in each of the columns 0x_1, 0x_3, 0x_9, 0x_B of 0x00..0x3F the four
\* opcodes have the one mnemonic LXI, INX, DAD, DCX of the column and the
\* register pair B, D, H, SP selected by opcode bits 5-4.
RegisterPairColumns ==
  \A r \in Decoded :
    r.first_byte < 64 /\ r.first_byte % 16 \in {1, 3, 9, 11} =>
      /\ r.text = (CASE r.first_byte % 16 = 1 -> "LXI"
                     [] r.first_byte % 16 = 3 -> "INX"
                     [] r.first_byte % 16 = 9 -> "DAD"
                     [] r.first_byte % 16 = 11 -> "DCX")
      /\ r.additional_text = RegisterPairs[(r.first_byte \div 16) + 1]

====
